---- MODULE Spec2Model ----
(***************************************************************************)
(* Model of Drupal.behaviors.calendarWithSingleFilter (the last, effective *)
(* definition in events.js, lines 325-529): single-select category filter, *)
(* event-source de-duplication and the singleton guard around one          *)
(* FullCalendar instance.                                                  *)
(*                                                                         *)
(* JavaScript values are modelled as tagged records [t, n, s]:             *)
(*   t = "undef" | "null" | "num" | "str", n the number, s the string as a *)
(*   sequence of one-character strings.                                    *)
(***************************************************************************)
EXTENDS Integers, Sequences, FiniteSets, TLC

VARIABLES
  calendars,          \* l.336-340: #calendar elements of the document, by once('fc-init') mark
  fcInstance,         \* l.331, 484: window.__fcCalendarInstance is set
  constructed,        \* l.414: FullCalendar.Calendar objects constructed so far
  group,              \* l.357: #filterEventsGroup is in the document
  buttons,            \* l.372: its .fc-filter-btn controls, in document order
  activeCategoryRaw,  \* l.367: closure variable of attach
  activeCategory,     \* l.368: closure variable of attach
  buttonsWired,       \* l.369: closure variable of attach
  sources,            \* l.510: calendar.getEventSources(), in order
  pending,            \* l.470: sources whose fetch is in flight
  events,             \* l.496: calendar.getEvents()
  observer,           \* l.488-491: the MutationObserver is connected
  timer,              \* l.492: the 10 s disconnect timer is pending
  last,               \* the handler that ran last, with one detail of it
  arg,                \* pure-function specifications: the input drawn
  out,                \* pure-function specifications: the results so far
  pc                  \* pure-function specifications: position

docVars == <<calendars, group, buttons>>
closureVars == <<activeCategoryRaw, activeCategory, buttonsWired>>
widgetVars == <<fcInstance, constructed, sources, pending, events>>
watchVars == <<observer, timer>>
pureVars == <<arg, out, pc>>
vars == <<docVars, closureVars, widgetVars, watchVars, last, pureVars>>

(* ---------------------------------------------------------------------- *)
(* Bounds                                                                  *)
(* ---------------------------------------------------------------------- *)
\* longest string the norm specification enumerates exhaustively
MaxLen == 3
\* #calendar elements the document can hold
MaxCalendars == 2
\* .fc-filter-btn controls the filter group can hold
MaxButtons == 2
\* event sources the widget can hold (the configured one plus external ones)
MaxSources == 2
\* records one feed response can carry
MaxRecs == 2

(* ---------------------------------------------------------------------- *)
(* JavaScript values and strings                                           *)
(* ---------------------------------------------------------------------- *)
Undef == [t |-> "undef", n |-> 0, s |-> <<>>]
Null == [t |-> "null", n |-> 0, s |-> <<>>]
Num(k) == [t |-> "num", n |-> k, s |-> <<>>]
Str(cs) == [t |-> "str", n |-> 0, s |-> cs]

IsNullish(v) == v.t \in {"undef", "null"}

\* a ?? b
Coalesce(a, b) == IF IsNullish(a) THEN b ELSE a

Digits == <<"0", "1", "2", "3", "4", "5", "6", "7", "8", "9">>
DigitSet == {Digits[i] : i \in 1..10}
WhiteSpace == {" ", "\t"}

RECURSIVE NatToString(_)
NatToString(k) ==
  IF k < 10 THEN <<Digits[k + 1]>>
  ELSE NatToString(k \div 10) \o <<Digits[(k % 10) + 1]>>

\* String(val) for the value kinds the model carries
ToStr(v) ==
  CASE v.t = "str" -> v.s
    [] v.t = "num" -> IF v.n < 0 THEN <<"-">> \o NatToString(-v.n)
                                 ELSE NatToString(v.n)
    [] v.t = "null" -> <<"n", "u", "l", "l">>
    [] OTHER -> <<"u", "n", "d", "e", "f", "i", "n", "e", "d">>

RECURSIVE TrimLeft(_)
TrimLeft(cs) ==
  IF cs # <<>> /\ Head(cs) \in WhiteSpace THEN TrimLeft(Tail(cs)) ELSE cs

RECURSIVE TrimRight(_)
TrimRight(cs) ==
  IF cs # <<>> /\ cs[Len(cs)] \in WhiteSpace
    THEN TrimRight(SubSeq(cs, 1, Len(cs) - 1))
    ELSE cs

Trim(cs) == TrimRight(TrimLeft(cs))

LowerChar(c) ==
  CASE c = "A" -> "a"
    [] c = "B" -> "b"
    [] c = "C" -> "c"
    [] c = "L" -> "l"
    [] c = "X" -> "x"
    [] OTHER -> c

ToLowerCase(cs) == [i \in 1..Len(cs) |-> LowerChar(cs[i])]

\* s.match(/\d+/): the first maximal run of decimal digits, <<>> when none
RECURSIVE DigitRun(_)
DigitRun(cs) ==
  IF cs = <<>> \/ Head(cs) \notin DigitSet THEN <<>>
  ELSE <<Head(cs)>> \o DigitRun(Tail(cs))

RECURSIVE FirstDigits(_)
FirstDigits(cs) ==
  IF cs = <<>> THEN <<>>
  ELSE IF Head(cs) \in DigitSet THEN DigitRun(cs)
  ELSE FirstDigits(Tail(cs))

ALL == <<"a", "l", "l">>

\* mutant of norm: the null guard hands the value back instead of ''
normNullLeak(val) ==
  IF IsNullish(val) THEN val
  ELSE LET s == ToLowerCase(Trim(ToStr(val)))
           m == FirstDigits(s)
       IN IF s = ALL THEN Str(ALL)
          ELSE IF m # <<>> THEN Str(m) ELSE Str(s)

\* mutant of norm: the digit run is not extracted
normNoDigits(val) ==
  IF IsNullish(val) THEN Str(<<>>)
  ELSE LET s == ToLowerCase(Trim(ToStr(val)))
       IN IF s = ALL THEN Str(ALL) ELSE Str(s)

norm(val) ==
  IF IsNullish(val) THEN Str(<<>>)
  ELSE LET s == ToLowerCase(Trim(ToStr(val)))
           m == FirstDigits(s)
       IN IF s = ALL THEN Str(ALL)
          ELSE IF m # <<>> THEN Str(m) ELSE Str(s)


(* ---------------------------------------------------------------------- *)
(* Markup: the filter group and its controls                               *)
(* ---------------------------------------------------------------------- *)
FEED_URL == "/event/calendar-feed.json"

CAT904 == <<"c", "a", "t", "e", "g", "o", "r", "y", "-", "9", "0", "4">>
CAT3 == <<"c", "a", "t", "e", "g", "o", "r", "y", "-", "3">>
KEY904 == <<"9", "0", "4">>

\* controls as the page delivers them, with data-cat among cats: marked
\* active or not, not wired, no handler
MarkupButtons(cats) ==
  [cat : cats, active : BOOLEAN, wired : {FALSE}, handlers : {0}]

RECURSIVE SeqsUpTo(_, _)
SeqsUpTo(S, k) ==
  IF k = 0 THEN {<<>>}
  ELSE LET shorter == SeqsUpTo(S, k - 1)
       IN shorter \cup {Append(q, x) : q \in {r \in shorter : Len(r) = k - 1}, x \in S}

\* JavaScript truthiness of the value kinds the model carries
Falsy(v) ==
  \/ v.t \in {"undef", "null"}
  \/ v.t = "str" /\ v.s = <<>>
  \/ v.t = "num" /\ v.n = 0

\* mutant of OrAll: no 'all' fallback, the left operand is kept as it is
OrAllKeep(v) == v

\* v || 'all'
OrAll(v) == IF Falsy(v) THEN Str(ALL) ELSE v

\* group.querySelector('.fc-filter-btn.active'): index of the first, 0 if none
FirstActive(btns) ==
  IF \E i \in 1..Len(btns) : btns[i].active
    THEN CHOOSE i \in 1..Len(btns) :
           btns[i].active /\ \A j \in 1..(i - 1) : ~btns[j].active
    ELSE 0

\* mutant of readDefaultFromMarkup: the first control is read, active or not
readDefaultFromMarkupFirst(grp, btns) ==
  IF ~grp THEN Null
  ELSE IF Len(btns) = 0 THEN Str(ALL)
  ELSE OrAll(btns[1].cat)

readDefaultFromMarkup(grp, btns) ==
  IF ~grp THEN Null
  ELSE IF FirstActive(btns) = 0 THEN Str(ALL)
  ELSE OrAll(btns[FirstActive(btns)].cat)

\* norm(btn.getAttribute('data-cat') || 'all')
buttonKey(btn) == norm(OrAll(btn.cat))

\* mutant of updateButtonsUI: the matching controls are switched on, the
\* others are left as they are
updateButtonsUIAddOnly(btns, act) ==
  [i \in 1..Len(btns) |->
     [btns[i] EXCEPT !.active = @ \/ (buttonKey(btns[i]) = act)]]

updateButtonsUI(btns, act) ==
  [i \in 1..Len(btns) |->
     [btns[i] EXCEPT !.active = (buttonKey(btns[i]) = act)]]

\* mutant of addClickHandlers: dataset.wired is not consulted
addClickHandlersAlways(btns) ==
  [i \in 1..Len(btns) |->
     [btns[i] EXCEPT !.wired = TRUE, !.handlers = @ + 1]]

\* the forEach of wireButtonsIfPresent: one handler per control not yet wired
addClickHandlers(btns) ==
  [i \in 1..Len(btns) |->
     IF btns[i].wired THEN btns[i]
     ELSE [btns[i] EXCEPT !.wired = TRUE, !.handlers = @ + 1]]

\* result of one call: ok is the return value, the rest the state it leaves
wireButtonsIfPresent(grp, btns, raw, act, wiredFlag) ==
  IF ~grp THEN [ok |-> FALSE, raw |-> raw, act |-> act, btns |-> btns,
                wired |-> wiredFlag]
  ELSE LET fromMarkup == readDefaultFromMarkup(grp, btns)
           adopt == ~wiredFlag /\ ~Falsy(fromMarkup)
           raw1 == IF adopt THEN fromMarkup ELSE raw
           act1 == IF adopt THEN norm(raw1) ELSE act
       IN [ok |-> TRUE, raw |-> raw1, act |-> act1,
           btns |-> updateButtonsUI(addClickHandlers(btns), act1),
           wired |-> TRUE]

(* ---------------------------------------------------------------------- *)
(* Events and visibility                                                   *)
(* ---------------------------------------------------------------------- *)
NoCat == [hasEP |-> FALSE, epCategory |-> Undef, epCategoryCap |-> Undef,
          epType |-> Undef, category |-> Undef, className |-> Undef]

\* raw.extendedProps && (category ?? Category ?? type)
rawExtendedCat(raw) ==
  IF raw.hasEP
    THEN Coalesce(Coalesce(raw.epCategory, raw.epCategoryCap), raw.epType)
    ELSE Undef

\* the display eventDataTransform gives a record under active category act
eventDataTransform(raw, act) ==
  LET evCat == norm(Coalesce(Coalesce(rawExtendedCat(raw), raw.category),
                             raw.className))
  IN IF act = Str(ALL) \/ evCat = act THEN "auto" ELSE "none"

\* ev.extendedProps of the event the widget builds from a record: the
\* record's extendedProps plus its non-standard top-level fields (category);
\* className is a standard field and becomes ev.classNames
extendedProps(raw) ==
  [category |-> IF raw.category.t # "undef" THEN raw.category
                ELSE IF raw.hasEP THEN raw.epCategory ELSE Undef,
   Category |-> IF raw.hasEP THEN raw.epCategoryCap ELSE Undef,
   type |-> IF raw.hasEP THEN raw.epType ELSE Undef]

\* mutant of filterDisplay: no "all" sentinel, only equal keys are shown
filterDisplayNoAll(raw, act) ==
  LET ep == extendedProps(raw)
      evCat == norm(Coalesce(Coalesce(Coalesce(ep.category, ep.Category), ep.type),
                             Str(<<>>)))
  IN IF evCat = act THEN "auto" ELSE "none"

\* the display applyFilter gives one event under active category act
filterDisplay(raw, act) ==
  LET ep == extendedProps(raw)
      evCat == norm(Coalesce(Coalesce(Coalesce(ep.category, ep.Category), ep.type),
                             Str(<<>>)))
  IN IF act = Str(ALL) \/ evCat = act THEN "auto" ELSE "none"

applyFilter(evs, act) ==
  {[e EXCEPT !.display = filterDisplay(e.raw, act)] : e \in evs}

(* ---------------------------------------------------------------------- *)
(* Event sources                                                           *)
(* ---------------------------------------------------------------------- *)
MainFeed == [sid |-> 1, id |-> "main-feed", url |-> FEED_URL]

matchingSources(srcs) == SelectSeq(srcs, LAMBDA s : s.url = FEED_URL)

\* mutant of ensureSingleEventSource: duplicates are found by id, not by url
ensureSingleEventSourceById(srcs) ==
  LET matching == SelectSeq(srcs, LAMBDA s : s.id = "main-feed")
      removed == IF Len(matching) > 1
                   THEN {matching[i].sid : i \in 2..Len(matching)}
                   ELSE {}
  IN SelectSeq(srcs, LAMBDA s : s.sid \notin removed)

\* mutant of ensureSingleEventSource: the loop starts one source too late
ensureSingleEventSourceKeepTwo(srcs) ==
  LET matching == matchingSources(srcs)
      removed == IF Len(matching) > 1
                   THEN {matching[i].sid : i \in 3..Len(matching)}
                   ELSE {}
  IN SelectSeq(srcs, LAMBDA s : s.sid \notin removed)

\* mutant of ensureSingleEventSource: one duplicate is removed per call
ensureSingleEventSourceOneOnly(srcs) ==
  LET matching == matchingSources(srcs)
      removed == IF Len(matching) > 1 THEN {matching[2].sid} ELSE {}
  IN SelectSeq(srcs, LAMBDA s : s.sid \notin removed)

\* mutant of ensureSingleEventSource: the last matching source is kept
ensureSingleEventSourceKeepLast(srcs) ==
  LET matching == matchingSources(srcs)
      removed == IF Len(matching) > 1
                   THEN {matching[i].sid : i \in 1..(Len(matching) - 1)}
                   ELSE {}
  IN SelectSeq(srcs, LAMBDA s : s.sid \notin removed)

ensureSingleEventSource(srcs) ==
  LET matching == matchingSources(srcs)
      removed == IF Len(matching) > 1
                   THEN {matching[i].sid : i \in 2..Len(matching)}
                   ELSE {}
  IN SelectSeq(srcs, LAMBDA s : s.sid \notin removed)

SourceIds(srcs) == {srcs[i].sid : i \in 1..Len(srcs)}

\* EventSourceApi.remove() also drops the source's events and its fetch
eventsOf(evs, srcs) == {e \in evs : e.src \in SourceIds(srcs)}


(* ---------------------------------------------------------------------- *)
(* Initial states                                                          *)
(* ---------------------------------------------------------------------- *)
Uninit == Str(<<"?">>)

\* the page: the filter group absent, or present with up to n controls
Markups(cats, n) ==
  {[group |-> FALSE, buttons |-> <<>>]} \cup
  {[group |-> TRUE, buttons |-> b] : b \in SeqsUpTo(MarkupButtons(cats), n)}

\* documents with up to n #calendar elements, none processed by once() yet
Documents(n) == {[fresh |-> k, once |-> 0] : k \in 0..n}

PureIdle == arg = Undef /\ out = <<>> /\ pc = "main"

\* the state before the first attach, for a set of documents and of markups
InitPage(docs, markups) ==
  /\ calendars \in docs
  /\ \E m \in markups : group = m.group /\ buttons = m.buttons
  /\ fcInstance = FALSE
  /\ constructed = 0
  /\ activeCategoryRaw = Uninit
  /\ activeCategory = Uninit
  /\ buttonsWired = FALSE
  /\ sources = <<>>
  /\ pending = {}
  /\ events = {}
  /\ observer = FALSE
  /\ timer = FALSE
  /\ last = <<"init", 0>>
  /\ PureIdle

(* ---------------------------------------------------------------------- *)
(* attach(context, settings)                                               *)
(* ---------------------------------------------------------------------- *)
\* document.querySelectorAll('#calendar').length
calendarCount == calendars.fresh + calendars.once

\* once('fc-init', '#calendar', context) with k unprocessed containers in the
\* context: it returns them and marks them processed
onceMarked(k) == [fresh |-> calendars.fresh - k, once |-> calendars.once + k]

\* lines 345-527: the widget is built, wired, rendered
AttachBuild ==
  LET raw0 == OrAll(readDefaultFromMarkup(group, buttons))
      w == wireButtonsIfPresent(group, buttons, raw0, norm(raw0), FALSE)
  IN /\ activeCategoryRaw' = w.raw
     /\ activeCategory' = w.act
     /\ buttonsWired' = w.wired
     /\ buttons' = w.btns
     /\ fcInstance' = TRUE
     /\ constructed' = constructed + 1
     /\ observer' = ~w.ok
     /\ timer' = ~w.ok
     /\ sources' = ensureSingleEventSource(<<MainFeed>>)
     /\ pending' = {MainFeed.sid}
     /\ events' = {}
     /\ last' = <<"attach", 0>>
     /\ UNCHANGED group

\* mutant of Attach: no singleton check on window.__fcCalendarInstance
AttachNoSingleton(k) ==
  /\ pc = "main"
  /\ k \in 0..calendars.fresh
  /\ IF k = 0
       THEN /\ last' = <<"attachNone", 0>>
            /\ UNCHANGED <<docVars, closureVars, widgetVars, watchVars>>
       ELSE /\ calendars' = onceMarked(k)
            /\ IF calendarCount > 1
                 THEN /\ last' = <<"attachAbort", 0>>
                      /\ UNCHANGED <<group, buttons, closureVars, widgetVars,
                                     watchVars>>
                 ELSE AttachBuild
  /\ UNCHANGED pureVars

Attach(k) ==
  /\ pc = "main"
  /\ k \in 0..calendars.fresh
  /\ IF fcInstance
       THEN /\ last' = <<"attachSkip", 0>>
            /\ UNCHANGED <<docVars, closureVars, widgetVars, watchVars>>
       ELSE IF k = 0
         THEN /\ last' = <<"attachNone", 0>>
              /\ UNCHANGED <<docVars, closureVars, widgetVars, watchVars>>
         ELSE /\ calendars' = onceMarked(k)
              /\ IF calendarCount > 1
                   THEN /\ last' = <<"attachAbort", 0>>
                        /\ UNCHANGED <<group, buttons, closureVars, widgetVars,
                                       watchVars>>
                   ELSE AttachBuild
  /\ UNCHANGED pureVars

(* ---------------------------------------------------------------------- *)
(* Handlers                                                                *)
(* ---------------------------------------------------------------------- *)
\* mutant of Click: the handler ends before applyFilter()
ClickNoApply(i) ==
  /\ pc = "main"
  /\ i \in 1..Len(buttons)
  /\ buttons[i].handlers > 0
  /\ LET raw1 == OrAll(buttons[i].cat)
         act1 == norm(raw1)
     IN /\ activeCategoryRaw' = raw1
        /\ activeCategory' = act1
        /\ buttons' = updateButtonsUI(buttons, act1)
  /\ last' = <<"click", i>>
  /\ UNCHANGED <<calendars, group, buttonsWired, widgetVars, watchVars, pureVars>>

\* click on the i-th control (it has a handler only once wired)
Click(i) ==
  /\ pc = "main"
  /\ i \in 1..Len(buttons)
  /\ buttons[i].handlers > 0
  /\ LET raw1 == OrAll(buttons[i].cat)
         act1 == norm(raw1)
     IN /\ activeCategoryRaw' = raw1
        /\ activeCategory' = act1
        /\ buttons' = updateButtonsUI(buttons, act1)
        /\ events' = applyFilter(events, act1)
  /\ last' = <<"click", i>>
  /\ UNCHANGED <<calendars, group, buttonsWired, fcInstance, constructed, sources,
                 pending, watchVars, pureVars>>

\* the response of source sid arrives: eventDataTransform on each record,
\* and loading(false) when no other fetch is in flight
Receive(sid, resp) ==
  /\ pc = "main"
  /\ sid \in pending
  /\ LET fromMarkup == readDefaultFromMarkup(group, buttons)
         reread == resp # {} /\ ~Falsy(fromMarkup)
         raw1 == IF reread THEN fromMarkup ELSE activeCategoryRaw
         act1 == IF reread THEN norm(raw1) ELSE activeCategory
         evs1 == {e \in events : e.src # sid} \cup
                 {[src |-> sid, raw |-> r, display |-> eventDataTransform(r, act1)] :
                    r \in resp}
         w == wireButtonsIfPresent(group, buttons, raw1, act1, buttonsWired)
         srcs2 == ensureSingleEventSource(sources)
     IN IF pending # {sid}
          THEN /\ activeCategoryRaw' = raw1
               /\ activeCategory' = act1
               /\ events' = evs1
               /\ pending' = pending \ {sid}
               /\ last' = <<"receive", 0>>
               /\ UNCHANGED <<buttons, buttonsWired, sources>>
          ELSE /\ activeCategoryRaw' = w.raw
               /\ activeCategory' = w.act
               /\ buttonsWired' = w.wired
               /\ buttons' = w.btns
               /\ sources' = srcs2
               /\ events' = applyFilter(eventsOf(evs1, srcs2), w.act)
               /\ pending' = {}
               /\ last' = <<"loading", Len(matchingSources(sources))>>
  /\ UNCHANGED <<calendars, group, fcInstance, constructed, watchVars, pureVars>>

\* navigation or refetch: every source fetches again
Refetch ==
  /\ pc = "main"
  /\ fcInstance
  /\ pending # SourceIds(sources)
  /\ pending' = SourceIds(sources)
  /\ last' = <<"page", 0>>
  /\ UNCHANGED <<docVars, closureVars, fcInstance, constructed, sources, events,
                 watchVars, pureVars>>

\* mutant of MutationCallback: obs.disconnect() is never called
MutationCallbackKeepWatching ==
  /\ pc = "main"
  /\ observer
  /\ LET w == wireButtonsIfPresent(group, buttons, activeCategoryRaw,
                                   activeCategory, buttonsWired)
     IN /\ activeCategoryRaw' = w.raw
        /\ activeCategory' = w.act
        /\ buttonsWired' = w.wired
        /\ buttons' = w.btns
  /\ last' = <<"mutation", 0>>
  /\ UNCHANGED <<calendars, group, widgetVars, watchVars, pureVars>>

\* the MutationObserver callback
MutationCallback ==
  /\ pc = "main"
  /\ observer
  /\ LET w == wireButtonsIfPresent(group, buttons, activeCategoryRaw,
                                   activeCategory, buttonsWired)
     IN /\ activeCategoryRaw' = w.raw
        /\ activeCategory' = w.act
        /\ buttonsWired' = w.wired
        /\ buttons' = w.btns
        /\ observer' = ~w.ok
  /\ last' = <<"mutation", 0>>
  /\ UNCHANGED <<calendars, group, widgetVars, timer, pureVars>>

\* setTimeout(() => observer.disconnect(), 10000)
Timeout ==
  /\ pc = "main"
  /\ timer
  /\ timer' = FALSE
  /\ observer' = FALSE
  /\ last' = <<"timeout", 0>>
  /\ UNCHANGED <<docVars, closureVars, widgetVars, pureVars>>

(* ---------------------------------------------------------------------- *)
(* The page around the behaviour                                           *)
(* ---------------------------------------------------------------------- *)
AddCalendar ==
  /\ pc = "main"
  /\ calendarCount < MaxCalendars
  /\ calendars' = [calendars EXCEPT !.fresh = @ + 1]
  /\ last' = <<"page", 0>>
  /\ UNCHANGED <<group, buttons, closureVars, widgetVars, watchVars, pureVars>>

\* a container leaves the document: a processed one, or one not yet processed
RemoveCalendar(processed) ==
  /\ pc = "main"
  /\ IF processed THEN calendars.once > 0 ELSE calendars.fresh > 0
  /\ calendars' = IF processed THEN [calendars EXCEPT !.once = @ - 1]
                               ELSE [calendars EXCEPT !.fresh = @ - 1]
  /\ last' = <<"page", 0>>
  /\ UNCHANGED <<group, buttons, closureVars, widgetVars, watchVars, pureVars>>

InjectGroup(btns) ==
  /\ pc = "main"
  /\ ~group
  /\ group' = TRUE
  /\ buttons' = btns
  /\ last' = <<"page", 0>>
  /\ UNCHANGED <<calendars, closureVars, widgetVars, watchVars, pureVars>>

AddButton(b) ==
  /\ pc = "main"
  /\ group
  /\ Len(buttons) < MaxButtons
  /\ buttons' = Append(buttons, b)
  /\ last' = <<"page", 0>>
  /\ UNCHANGED <<calendars, group, closureVars, widgetVars, watchVars, pureVars>>

\* other code moves the class 'active' to the i-th control (a server-rendered
\* default that changed, a script of the page): what querySelector
\* ('.fc-filter-btn.active') finds from then on
Remark(i) ==
  /\ pc = "main"
  /\ group
  /\ i \in 1..Len(buttons)
  /\ ~buttons[i].active
  /\ buttons' = [j \in 1..Len(buttons) |-> [buttons[j] EXCEPT !.active = (j = i)]]
  /\ last' = <<"page", 0>>
  /\ UNCHANGED <<calendars, group, closureVars, widgetVars, watchVars, pureVars>>

\* calendar.addEventSource(...) by other code; the new source starts to fetch
AddSource(src) ==
  /\ pc = "main"
  /\ fcInstance
  /\ Len(sources) < MaxSources
  /\ LET sid == CHOOSE n \in 1..MaxSources : n \notin SourceIds(sources)
     IN /\ sources' = Append(sources, [sid |-> sid, id |-> src.id, url |-> src.url])
        /\ pending' = pending \cup {sid}
  /\ last' = <<"page", 0>>
  /\ UNCHANGED <<docVars, closureVars, fcInstance, constructed, events, watchVars,
                 pureVars>>

(* ---------------------------------------------------------------------- *)
(* Spec: the filter over the life of a page with one #calendar, attached   *)
(* once                                                                    *)
(* ---------------------------------------------------------------------- *)
\* values of the data-cat attribute: missing, "all", "category-904"
DataCats == {Null, Str(ALL), Str(CAT904)}

\* what the feed can return: an event with top-level category 904, one with
\* top-level category "category-3", and one without any category
FeedRecs ==
  {[NoCat EXCEPT !.category = Num(904)],
   [NoCat EXCEPT !.category = Str(CAT3)],
   NoCat}

Responses == {r \in SUBSET FeedRecs : Cardinality(r) <= MaxRecs}

\* the controls the page can deliver, and the groups it can build of them
PageButtons == MarkupButtons(DataCats)
PageMarkups == Markups(DataCats, MaxButtons)

Init == InitPage({[fresh |-> 1, once |-> 0]}, PageMarkups)

Next ==
  \/ ~fcInstance /\ Attach(1)
  \/ \E i \in 1..MaxButtons : Click(i)
  \/ \E resp \in Responses : Receive(MainFeed.sid, resp)
  \/ Refetch
  \/ MutationCallback
  \/ Timeout
  \/ ~group /\ \E m \in PageMarkups : m.group /\ InjectGroup(m.buttons)
  \/ group /\ \E b \in PageButtons : AddButton(b)

Spec == Init /\ [][Next]_vars


(* ---------------------------------------------------------------------- *)
(* SpecSources: other code adds event sources to the widget                *)
(* ---------------------------------------------------------------------- *)
\* sources other code can add: the same feed again (with or without the id)
\* and another feed that reuses the id
ExternalSources ==
  {[id |-> "main-feed", url |-> FEED_URL],
   [id |-> "", url |-> FEED_URL],
   [id |-> "main-feed", url |-> "/other-feed.json"]}

FewCats == {Str(ALL), Str(CAT904)}
FewMarkups == Markups(FewCats, 1)
FewResponses ==
  {{}, {[NoCat EXCEPT !.category = Num(904)]},
   {[NoCat EXCEPT !.category = Num(904)], [NoCat EXCEPT !.category = Str(CAT3)]}}

InitSources == InitPage({[fresh |-> 1, once |-> 0]}, FewMarkups)

NextSources ==
  \/ \E k \in 0..1 : Attach(k)
  \/ \E src \in ExternalSources : AddSource(src)
  \/ \E sid \in 1..MaxSources, resp \in FewResponses : Receive(sid, resp)
  \/ Refetch
  \/ \E i \in 1..MaxButtons : Click(i)
  \/ MutationCallback
  \/ Timeout
  \/ \E m \in FewMarkups : m.group /\ InjectGroup(m.buttons)

SpecSources == InitSources /\ [][NextSources]_vars

(* ---------------------------------------------------------------------- *)
(* SpecAttach: attach is called again and again while the page gains and   *)
(* loses #calendar elements                                                *)
(* ---------------------------------------------------------------------- *)
InitAttach == InitPage(Documents(MaxCalendars), FewMarkups)

NextAttach ==
  \/ \E k \in 0..MaxCalendars : Attach(k)
  \/ AddCalendar
  \/ \E processed \in BOOLEAN : RemoveCalendar(processed)
  \/ \E src \in ExternalSources : AddSource(src)
  \/ \E sid \in 1..MaxSources, resp \in FewResponses : Receive(sid, resp)
  \/ \E i \in 1..MaxButtons : Click(i)
  \/ MutationCallback
  \/ Timeout
  \/ \E m \in FewMarkups : m.group /\ InjectGroup(m.buttons)

SpecAttach == InitAttach /\ [][NextAttach]_vars

(* ---------------------------------------------------------------------- *)
(* SpecMarkup: other code changes which control carries class 'active',    *)
(* and a second feed is fetched next to the configured one                 *)
(* ---------------------------------------------------------------------- *)
OtherFeed == [id |-> "", url |-> "/other-feed.json"]

ManyMarkups == Markups(FewCats, MaxButtons)

InitMarkup == InitPage({[fresh |-> 1, once |-> 0]}, ManyMarkups)

NextMarkup ==
  \/ ~fcInstance /\ Attach(1)
  \/ \E i \in 1..MaxButtons : Click(i)
  \/ \E i \in 1..MaxButtons : Remark(i)
  \/ AddSource(OtherFeed)
  \/ \E sid \in 1..MaxSources, resp \in FewResponses : Receive(sid, resp)
  \/ Refetch
  \/ MutationCallback
  \/ Timeout
  \/ ~group /\ \E m \in ManyMarkups : m.group /\ InjectGroup(m.buttons)

SpecMarkup == InitMarkup /\ [][NextMarkup]_vars

(* ---------------------------------------------------------------------- *)
(* SpecSelect: the page serves its controls with none marked active, and   *)
(* nothing but the behaviour changes the marks afterwards; two data-cat    *)
(* values of the page have the same key                                    *)
(* ---------------------------------------------------------------------- *)
SelectCats == {Null, Str(ALL), Str(CAT904), Str(KEY904)}

UnmarkedButtons == {b \in MarkupButtons(SelectCats) : ~b.active}

UnmarkedMarkups ==
  {[group |-> FALSE, buttons |-> <<>>]} \cup
  {[group |-> TRUE, buttons |-> b] : b \in SeqsUpTo(UnmarkedButtons, MaxButtons)}

InitSelect == InitPage({[fresh |-> 1, once |-> 0]}, UnmarkedMarkups)

NextSelect ==
  \/ ~fcInstance /\ Attach(1)
  \/ \E i \in 1..MaxButtons : Click(i)
  \/ \E resp \in Responses : Receive(MainFeed.sid, resp)
  \/ Refetch
  \/ MutationCallback
  \/ Timeout
  \/ ~group /\ \E m \in UnmarkedMarkups : m.group /\ InjectGroup(m.buttons)

SpecSelect == InitSelect /\ [][NextSelect]_vars


(* ---------------------------------------------------------------------- *)
(* SpecBlank: the data-cat attribute of a control takes every kind of      *)
(* value: missing, empty, whitespace-only, "all", numeric, non-numeric     *)
(* ---------------------------------------------------------------------- *)
BlankCats ==
  {Null, Str(<<>>), Str(<<" ">>), Str(ALL), Str(CAT904), Str(KEY904),
   Str(<<"x">>)}

BlankMarkups == Markups(BlankCats, MaxButtons)

BlankResponses == FewResponses \cup {{NoCat}}

InitBlank == InitPage({[fresh |-> 1, once |-> 0]}, BlankMarkups)

NextBlank ==
  \/ ~fcInstance /\ Attach(1)
  \/ \E i \in 1..MaxButtons : Click(i)
  \/ \E resp \in BlankResponses : Receive(MainFeed.sid, resp)
  \/ Refetch
  \/ MutationCallback
  \/ Timeout
  \/ ~group /\ \E m \in BlankMarkups : m.group /\ InjectGroup(m.buttons)

SpecBlank == InitBlank /\ [][NextBlank]_vars


(* ---------------------------------------------------------------------- *)
(* SpecLate: the control group is absent at attach and is inserted into    *)
(* the document while the 10 s timer is pending; controls are appended to  *)
(* it later on. The scheduling of the event loop is part of this           *)
(* specification.                                                          *)
(* ---------------------------------------------------------------------- *)
NoGroup == {[group |-> FALSE, buttons |-> <<>>]}

InitLate == InitPage({[fresh |-> 1, once |-> 0]}, NoGroup)

\* the insertion of the group queued a childList record for the connected
\* observer (l.491) and its callback has not run yet; the callback is a
\* microtask, it runs before the timer and before any other task
NotificationPending == observer /\ group

\* a task of the event loop can start: the widget exists and no observer
\* callback is queued
TaskTurn == fcInstance /\ ~NotificationPending

LateReceive == \E resp \in Responses : Receive(MainFeed.sid, resp)

NextLate ==
  \/ ~fcInstance /\ Attach(1)
  \/ MutationCallback
  \/ TaskTurn /\ \E i \in 1..MaxButtons : Click(i)
  \/ TaskTurn /\ LateReceive
  \/ TaskTurn /\ Refetch
  \/ TaskTurn /\ Timeout
  \/ TaskTurn /\ timer /\ \E m \in PageMarkups : m.group /\ InjectGroup(m.buttons)
  \/ TaskTurn /\ group /\ \E b \in PageButtons : AddButton(b)

\* weak fairness of the observer callback while a record is queued, with
\* its enabling condition written as the state predicate it amounts to
FairCallback == <>[]NotificationPending => []<><<MutationCallback>>_vars

\* weak fairness of the completion of a fetch in flight, its enabling
\* condition written out likewise
FairReceive == <>[](TaskTurn /\ pending # {}) => []<><<LateReceive>>_vars

\* a queued mutation record is delivered, a fetch in flight completes, the
\* timer fires; the user need not click or navigate, the page need not add
\* anything
SpecLate ==
  /\ InitLate
  /\ [][NextLate]_vars
  /\ WF_vars(TaskTurn /\ Timeout)
  /\ FairCallback
  /\ FairReceive


(* ---------------------------------------------------------------------- *)
(* Pure functions, applied to inputs drawn from bounded sets               *)
(* ---------------------------------------------------------------------- *)
\* no page, no widget: the state the pure-function specifications stay in
NoPage ==
  /\ calendars = [fresh |-> 0, once |-> 0]
  /\ group = FALSE
  /\ buttons = <<>>
  /\ fcInstance = FALSE
  /\ constructed = 0
  /\ activeCategoryRaw = Uninit
  /\ activeCategory = Uninit
  /\ buttonsWired = FALSE
  /\ sources = <<>>
  /\ pending = {}
  /\ events = {}
  /\ observer = FALSE
  /\ timer = FALSE
  /\ last = <<"init", 0>>

pageVars == <<docVars, closureVars, widgetVars, watchVars, last>>

(* --- SpecNorm: norm, and norm of its own result ------------------------ *)
NormChars == {" ", "a", "A", "l", "L", "9", "-"}

NormInputs ==
  {Null, Undef, Num(904), Num(0), Num(-3),
   Str(CAT904), Str(CAT3), Str(<<"a", "b", "c">>),
   Str(<<" ", "A", "L", "L", " ">>), Str(<<"a", "1", "2", "b", "3">>),
   Str(<<"\t", "C", "a", "t", "-", "9", "0", "4", " ">>)}
  \cup {Str(cs) : cs \in SeqsUpTo(NormChars, MaxLen)}

InitNorm == NoPage /\ arg \in NormInputs /\ out = <<>> /\ pc = "norm"

\* norm(arg), then norm(norm(arg))
NormCall ==
  /\ pc = "norm"
  /\ Len(out) < 2
  /\ out' = Append(out, norm(IF out = <<>> THEN arg ELSE out[Len(out)]))
  /\ UNCHANGED <<pageVars, arg, pc>>

SpecNorm == InitNorm /\ [][NormCall]_vars

(* --- SpecVisibility: one record, one active category, three call sites -- *)
CatValues == {Num(904), Str(CAT904), Str(CAT3), Str(<<"A", "L", "L">>), Null}

\* records that carry their category under exactly one consumed field
CatRecords ==
  {[NoCat EXCEPT !.hasEP = TRUE, !.epCategory = v] : v \in CatValues} \cup
  {[NoCat EXCEPT !.hasEP = TRUE, !.epCategoryCap = v] : v \in CatValues} \cup
  {[NoCat EXCEPT !.hasEP = TRUE, !.epType = v] : v \in CatValues} \cup
  {[NoCat EXCEPT !.category = v] : v \in CatValues} \cup
  {[NoCat EXCEPT !.className = v] : v \in CatValues} \cup
  {NoCat, [NoCat EXCEPT !.hasEP = TRUE]}

\* the keys the active category is drawn from: "904", "3", "all", "x"
ActiveKeys == {norm(v) : v \in (CatValues \ {Null}) \cup {Str(<<"x">>)}}

Unset == "unset"

InitVisibility ==
  /\ NoPage
  /\ arg \in [active : ActiveKeys, raw : CatRecords]
  /\ out = [transform |-> Unset, loading |-> Unset, click |-> Unset]
  /\ pc = "visibility"

\* the display the widget holds for the record after applyFilter has run
AppliedDisplay(raw, act) ==
  LET held == applyFilter({[src |-> MainFeed.sid, raw |-> raw, display |-> "auto"]},
                          act)
  IN (CHOOSE e \in held : TRUE).display

\* the pre-render transform decides
ViaTransform ==
  /\ pc = "visibility"
  /\ out.transform = Unset
  /\ out' = [out EXCEPT !.transform = eventDataTransform(arg.raw, arg.active)]
  /\ UNCHANGED <<pageVars, arg, pc>>

\* loading(false) decides
ViaLoading ==
  /\ pc = "visibility"
  /\ out.loading = Unset
  /\ out' = [out EXCEPT !.loading = AppliedDisplay(arg.raw, arg.active)]
  /\ UNCHANGED <<pageVars, arg, pc>>

\* the click handler decides
ViaClick ==
  /\ pc = "visibility"
  /\ out.click = Unset
  /\ out' = [out EXCEPT !.click = AppliedDisplay(arg.raw, arg.active)]
  /\ UNCHANGED <<pageVars, arg, pc>>

SpecVisibility ==
  InitVisibility /\ [][ViaTransform \/ ViaLoading \/ ViaClick]_vars

(* --- SpecDedup: ensureSingleEventSource, twice in a row ---------------- *)
\* longest source list the dedup specification draws
MaxDedup == 3

SourceKinds == ExternalSources \cup {[id |-> "", url |-> "/other-feed.json"]}

\* source lists: any kinds in any order, the i-th source has sid i
SourceLists ==
  {[i \in 1..Len(q) |-> [sid |-> i, id |-> q[i].id, url |-> q[i].url]] :
     q \in SeqsUpTo(SourceKinds, MaxDedup)}

InitDedup == NoPage /\ arg \in SourceLists /\ out = <<>> /\ pc = "dedup"

DedupCall ==
  /\ pc = "dedup"
  /\ Len(out) < 2
  /\ out' = Append(out, ensureSingleEventSource(IF out = <<>> THEN arg
                                                ELSE out[Len(out)]))
  /\ UNCHANGED <<pageVars, arg, pc>>

SpecDedup == InitDedup /\ [][DedupCall]_vars

(* --- SpecGuard: ensureSingleEventSource on a widget with wired controls - *)
\* the widget after attach found the group m, holding the sources srcs
\* (other code adds and removes sources) and one event of each source
GuardState(m, srcs) ==
  LET raw0 == OrAll(readDefaultFromMarkup(m.group, m.buttons))
      w == wireButtonsIfPresent(m.group, m.buttons, raw0, norm(raw0), FALSE)
  IN /\ calendars = [fresh |-> 0, once |-> 1]
     /\ group = m.group
     /\ buttons = w.btns
     /\ activeCategoryRaw = w.raw
     /\ activeCategory = w.act
     /\ buttonsWired = w.wired
     /\ fcInstance = TRUE
     /\ constructed = 1
     /\ sources = srcs
     /\ pending = {}
     /\ events = {[src |-> i, raw |-> [NoCat EXCEPT !.category = Num(904)],
                   display |-> filterDisplay([NoCat EXCEPT !.category = Num(904)],
                                             w.act)] : i \in 1..Len(srcs)}
     /\ observer = FALSE
     /\ timer = FALSE
     /\ last = <<"init", 0>>

InitGuard ==
  /\ \E m \in FewMarkups, srcs \in SourceLists : m.group /\ GuardState(m, srcs)
  /\ PureIdle

\* one call of ensureSingleEventSource(); remove() takes the source's events
\* and its fetch along
GuardCall ==
  /\ pc = "main"
  /\ last[1] # "dedup"
  /\ sources' = ensureSingleEventSource(sources)
  /\ events' = eventsOf(events, sources')
  /\ pending' = pending \cap SourceIds(sources')
  /\ last' = <<"dedup", Len(matchingSources(sources))>>
  /\ UNCHANGED <<docVars, closureVars, fcInstance, constructed, watchVars,
                 pureVars>>

SpecGuard == InitGuard /\ [][GuardCall]_vars



(* ---------------------------------------------------------------------- *)
(* Properties                                                              *)
(* ---------------------------------------------------------------------- *)
Selected == {i \in 1..Len(buttons) : buttons[i].active}
MatchingButtons == {i \in 1..Len(buttons) : buttonKey(buttons[i]) = activeCategory}

\* C1, as claimed: after attach and after every click at most one control
\* is selected, the selected ones being exactly those whose normalized
\* data-cat equals activeCategory.
C1_SingleSelect ==
  (group /\ last[1] \in {"attach", "click"}) =>
    /\ Cardinality(Selected) <= 1
    /\ Selected = MatchingButtons

\* C1, amended: after attach, every click, every load completion and every
\* successful wiring a control is selected iff its normalized data-cat equals
\* activeCategory; so at most one control is selected whenever the controls'
\* normalized keys are pairwise distinct.
C1_SelectedIffKey ==
  (group /\ last[1] \in {"attach", "click", "loading", "mutation"}) =>
    /\ Selected = MatchingButtons
    /\ (\A i, j \in 1..Len(buttons) :
          i # j => buttonKey(buttons[i]) # buttonKey(buttons[j]))
         => Cardinality(Selected) <= 1

\* a click has left one of two controls with different keys selected
C1_Witness ==
  /\ last[1] = "click"
  /\ Len(buttons) = 2
  /\ buttonKey(buttons[1]) # buttonKey(buttons[2])
  /\ Cardinality(Selected) = 1

\* C2: once the transform, loading(false) and the click handler have each
\* decided the display of the same record under the same active category,
\* the three displays are equal.
C2_SameDisplay ==
  (pc = "visibility" /\ out.transform # Unset /\ out.loading # Unset
     /\ out.click # Unset) =>
    (out.transform = out.loading /\ out.loading = out.click)

attachOps == {"attach", "attachSkip", "attachNone", "attachAbort"}

\* C3: no step constructs a second widget, no step clears the singleton
\* flag, and an attach that finds the flag set changes nothing.
C3_Singleton ==
  [][/\ constructed' <= 1
     /\ fcInstance => fcInstance'
     /\ (fcInstance /\ last'[1] \in attachOps)
          => UNCHANGED <<docVars, closureVars, widgetVars, watchVars>>]_vars

\* attach was skipped although the document held one unprocessed container
C3_Witness ==
  /\ last[1] = "attachSkip"
  /\ calendars = [fresh |-> 1, once |-> 0]
  /\ constructed = 1
  /\ Len(sources) > 1

\* C4: a load completion that found two or more sources with the feed URL
\* leaves exactly one of them.
C4_OneSourceAfterLoad ==
  (last[1] = "loading" /\ last[2] >= 2) => Len(matchingSources(sources)) = 1

\* a load completion found a duplicate source and one source is left
C4_Witness ==
  /\ last[1] = "loading"
  /\ last[2] >= 2
  /\ Len(matchingSources(sources)) = 1

idSources(srcs) == SelectSeq(srcs, LAMBDA s : s.id = "main-feed")

\* C5, as claimed: in every state after attach at most one source has the
\* feed URL and at most one the id 'main-feed'.
C5_AtMostOneAlways ==
  fcInstance =>
    (Len(matchingSources(sources)) <= 1 /\ Len(idSources(sources)) <= 1)

\* C5, amended: right after attach and after every load completion at most
\* one source has the feed URL.
C5_AtMostOneAfterLoad ==
  last[1] \in {"attach", "loading"} => Len(matchingSources(sources)) <= 1

\* after a load completion a source that only shares the id is still there
C5_Witness ==
  /\ last[1] = "loading"
  /\ Len(sources) = 2
  /\ Len(idSources(sources)) = 2
  /\ Len(matchingSources(sources)) = 1

\* C6: the second of two ensureSingleEventSource calls in a row returns the
\* source list the first one left.
C6_DedupIdempotent ==
  (pc = "dedup" /\ Len(out) = 2) => out[2] = out[1]

\* both calls ran and the first one removed a source
C6_Witness ==
  /\ pc = "dedup"
  /\ Len(out) = 2
  /\ Len(out[1]) < Len(arg)

\* C7: norm returns a string for every input, and norm of that string is
\* that string.
C7_NormTotalIdempotent ==
  pc = "norm" =>
    /\ \A i \in 1..Len(out) : out[i].t = "str"
    /\ Len(out) = 2 => out[2] = out[1]

\* norm(" ALL ") = "all" and norm("all") = "all"
C7_Witness ==
  /\ pc = "norm"
  /\ arg = Str(<<" ", "A", "L", "L", " ">>)
  /\ out = <<Str(ALL), Str(ALL)>>

\* C8: when attach read "category-904" from the active control, the load
\* completion that follows it shows the events with category 904, hides the
\* events with category "category-3" and leaves the "category-904" control
\* selected, no control with another key being selected.
C8_DefaultFromMarkup ==
  [][(last[1] = "attach" /\ activeCategoryRaw = Str(CAT904)
        /\ last'[1] = "loading") =>
       /\ \A e \in events' :
            /\ e.raw.category = Num(904) => e.display = "auto"
            /\ e.raw.category = Str(CAT3) => e.display = "none"
       /\ \A i \in 1..Len(buttons') :
            /\ buttons'[i].cat = Str(CAT904) => buttons'[i].active
            /\ buttons'[i].active => buttonKey(buttons'[i]) = Str(KEY904)]_vars

\* the scenario's state: both events held, one shown and one hidden
C8_Witness ==
  /\ last[1] = "loading"
  /\ activeCategoryRaw = Str(CAT904)
  /\ \E e \in events : e.raw.category = Num(904) /\ e.display = "auto"
  /\ \E e \in events : e.raw.category = Str(CAT3) /\ e.display = "none"
  /\ \E i \in 1..Len(buttons) : buttons[i].cat = Str(CAT904) /\ buttons[i].active
  /\ \E i \in 1..Len(buttons) : ~buttons[i].active

\* C9, as claimed: after a click on a control with data-cat="all" every
\* event is shown and that control alone is selected.
C9_OnlyAllSelected ==
  (last[1] = "click" /\ buttons[last[2]].cat = Str(ALL)) =>
    /\ \A e \in events : e.display = "auto"
    /\ Selected = {last[2]}

\* C9, amended: after a click on a control with data-cat="all" every event
\* is shown, that control is selected, and the selected controls are exactly
\* those whose normalized data-cat is "all".
C9_AllSelected ==
  (last[1] = "click" /\ buttons[last[2]].cat = Str(ALL)) =>
    /\ \A e \in events : e.display = "auto"
    /\ last[2] \in Selected
    /\ Selected = {i \in 1..Len(buttons) : buttonKey(buttons[i]) = Str(ALL)}

\* "all" was clicked while an event without category was held and another
\* control exists, which is not selected
C9_Witness ==
  /\ last[1] = "click"
  /\ buttons[last[2]].cat = Str(ALL)
  /\ \E e \in events : e.raw = NoCat
  /\ \E e \in events : e.raw.category = Str(CAT3)
  /\ Selected = {last[2]}
  /\ Len(buttons) = 2

\* C10: an attach that aborts on several #calendar elements writes nothing:
\* not the once() mark, not the flag, not the controls, not the watch.
C10_AbortLeavesNoState ==
  [][last'[1] = "attachAbort"
       => UNCHANGED <<docVars, closureVars, widgetVars, watchVars>>]_vars

\* the key of the control the markup marks active, "all" when none is marked
\* or the group is absent
MarkupKey == norm(OrAll(readDefaultFromMarkup(group, buttons)))

\* the transform half of C11: a response whose records were transformed
\* while another fetch is in flight leaves activeCategory equal to the key
\* of the control the markup marked active when it arrived, and its records
\* have the display for that key
TransformRereads ==
  (last'[1] = "receive" /\ events' \ events # {}) =>
    /\ activeCategory' = MarkupKey
    /\ \A e \in events' \ events :
         e.display = eventDataTransform(e.raw, MarkupKey)

\* C11: a response whose records were transformed, and every load
\* completion, leave activeCategory equal to the key of the control the
\* markup marked active when the response arrived ("all" when none was),
\* and the displays decided at that point are the ones for that key.
C11_RereadOnFetch ==
  [][/\ TransformRereads
     /\ last'[1] = "loading" =>
          /\ activeCategory' = MarkupKey
          /\ \A e \in events' : e.display = filterDisplay(e.raw, MarkupKey)]_vars

\* the event built from the record has no category, Category or type under
\* extendedProps
NoExtendedCat(raw) ==
  LET ep == extendedProps(raw)
  IN IsNullish(ep.category) /\ IsNullish(ep.Category) /\ IsNullish(ep.type)

\* C12: for a record without category, Category or type under
\* extendedProps, each of the three call sites that has decided its display
\* gave 'auto' when the active category is "all" and 'none' under every
\* other active category.
C12_NoCategoryHidden ==
  (pc = "visibility" /\ NoExtendedCat(arg.raw)) =>
    \A d \in {out.transform, out.loading, out.click} :
      d # Unset => d = (IF arg.active = Str(ALL) THEN "auto" ELSE "none")

\* C13: while no control group has appeared, attach has built the widget,
\* activeCategory is "all", and every event the widget holds, after a load
\* completion as at any other moment, has display 'auto'.
C13_NoGroupShowsAll ==
  (~group /\ last[1] # "init") =>
    /\ fcInstance
    /\ constructed = 1
    /\ activeCategory = Str(ALL)
    /\ \A e \in events : e.display = "auto"

\* a load completion without control group: events of two categories and
\* one without category are held
C13_Witness ==
  /\ ~group
  /\ last[1] = "loading"
  /\ Cardinality(events) = 2
  /\ \E e \in events : e.raw = NoCat
  /\ \E e \in events : e.raw.category = Str(CAT3)

\* C14: every control carries at most one click handler, and it carries
\* one exactly when it is marked wired.
C14_WiredOnce ==
  \A i \in 1..Len(buttons) :
    /\ buttons[i].handlers <= 1
    /\ buttons[i].wired <=> buttons[i].handlers = 1

\* the group came late: the mutation watch has found it and gone away (the
\* timer is still pending), and a load completion has run
\* wireButtonsIfPresent on its two controls as well
C14_Witness ==
  /\ last[1] = "loading"
  /\ timer
  /\ ~observer
  /\ Len(buttons) = 2
  /\ \A i \in 1..Len(buttons) : buttons[i].handlers = 1

AllWiredSynced ==
  /\ \A i \in 1..Len(buttons) : buttons[i].handlers > 0
  /\ Selected = MatchingButtons

\* C16: when the group was absent at attach and was inserted before the
\* timer fired, then from every state in which the group is present a state
\* follows in which every control of the group is wired and synced to
\* activeCategory, also after controls were appended to the wired group.
C16_LateBinding == group ~> AllWiredSynced

\* C17: in the state a click leaves, activeCategory is the normalized
\* data-cat of the clicked control, a control is selected iff its key is
\* that category, and every event the widget holds has the display
\* applyFilter gives it under that category.
C17_ClickAtomic ==
  last[1] = "click" =>
    /\ activeCategoryRaw = OrAll(buttons[last[2]].cat)
    /\ activeCategory = norm(activeCategoryRaw)
    /\ Selected = MatchingButtons
    /\ \A e \in events : e.display = filterDisplay(e.raw, activeCategory)

\* a click on "category-904" while a fetch is in flight: one control
\* selected, one event shown and one hidden
C17_Witness ==
  /\ last[1] = "click"
  /\ pending # {}
  /\ activeCategory = Str(KEY904)
  /\ Len(buttons) = 2
  /\ Selected = {last[2]}
  /\ \E e \in events : e.display = "auto"
  /\ \E e \in events : e.display = "none"

\* C18: a call of ensureSingleEventSource leaves, in their order, every
\* source with another url and the first source with the feed url, and no
\* other source; it leaves the source list as it is when at most one source
\* has the feed url; it leaves activeCategory, the controls and their wired
\* markers unchanged.
C18_DedupFrame ==
  [][last'[1] = "dedup" =>
       LET matching == matchingSources(sources)
       IN /\ SelectSeq(sources', LAMBDA s : s.url # FEED_URL)
               = SelectSeq(sources, LAMBDA s : s.url # FEED_URL)
          /\ matchingSources(sources')
               = (IF matching = <<>> THEN <<>> ELSE <<matching[1]>>)
          /\ sources' = SelectSeq(sources,
                LAMBDA s : s.url # FEED_URL \/ s.sid = matching[1].sid)
          /\ Len(matching) <= 1 => sources' = sources
          /\ UNCHANGED <<group, buttons, closureVars>>]_vars

\* the call found two sources with the feed url behind a source with
\* another url: the other source and the first of the two are left, next
\* to a wired control
C18_Witness ==
  /\ last = <<"dedup", 2>>
  /\ Len(sources) = 2
  /\ sources[1].url # FEED_URL
  /\ sources[2].url = FEED_URL
  /\ sources[2].sid = 2
  /\ Len(buttons) = 1
  /\ buttons[1].wired

\* C19: whenever the widget exists and no fetch is in flight (so the first
\* load completion is past), every event it holds has display 'auto' if
\* activeCategory is "all" or equals the event's normalized category, and
\* 'none' otherwise.
C19_DisplayMatchesActive ==
  (fcInstance /\ pending = {}) =>
    \A e \in events : e.display = filterDisplay(e.raw, activeCategory)

\* C20: a click stores the normalized data-cat of the clicked control, and
\* no other step of the built widget (transform, load completion, mutation
\* callback, timer) changes activeCategory; so from a click to the next one
\* activeCategory stays the key of the clicked control.
C20_SelectionSurvives ==
  [][/\ last'[1] = "click" =>
          activeCategory' = norm(OrAll(buttons[last'[2]].cat))
     /\ (fcInstance /\ last'[1] # "click") =>
          activeCategory' = activeCategory]_vars

\* "904" was clicked next to "category-904" (no control is served active,
\* so key "904" can only come from a click), and a load completion since
\* then has kept the key, both controls selected, one event hidden
C20_Witness ==
  /\ last[1] = "loading"
  /\ activeCategory = Str(KEY904)
  /\ Len(buttons) = 2
  /\ buttons[1].cat = Str(CAT904)
  /\ buttons[2].cat = Str(KEY904)
  /\ Selected = {1, 2}
  /\ \E e \in events : e.display = "auto"
  /\ \E e \in events : e.display = "none"

\* the key applyFilter computes for an event
eventKey(raw) ==
  LET ep == extendedProps(raw)
  IN norm(Coalesce(Coalesce(Coalesce(ep.category, ep.Category), ep.type),
                   Str(<<>>)))

\* C21: once attach has built the widget, activeCategory is a non-empty
\* string, whatever data-cat values the controls carry; so the key of an
\* event whose category key is empty never equals activeCategory.
C21_ActiveNeverEmpty ==
  fcInstance =>
    /\ activeCategory.t = "str"
    /\ activeCategory.s # <<>>
    /\ \A e \in events :
         eventKey(e.raw) = Str(<<>>) => eventKey(e.raw) # activeCategory

====
